---- MODULE Spec2Model ----
(***************************************************************************)
(* Model of the movie MCP server (movie_mcp.py) and of the command-line    *)
(* variant (simple_movie.py).                                              *)
(*                                                                         *)
(* Python strings are sequences of tokens.  The tokens the code splits or  *)
(* strips on (":", "\n", " ", "/") are single tokens; a literal piece of   *)
(* text that contains none of them is one token.  The Chinese literals of  *)
(* the source are written in pinyin, the original is given in a comment.   *)
(***************************************************************************)
EXTENDS Integers, Sequences, FiniteSets, TLC

VARIABLES
    TIMESTAMP,   \* movie_mcp.py:17, captured when the module is loaded
    now,         \* the wall clock, datetime.now()
    files,       \* DATA_DIR: file name -> content
    hashseed,    \* the interpreter's string hash seed, fixed per process
    op,          \* the operation last invoked (or the position of a process)
    args,        \* its arguments and what the network and the disk answer
    locals,      \* the operation's local variables when it returned, by name
    ret,         \* what it returned
    attempts,    \* number of fetches / wrapped calls it performed
    i            \* loop index of retry_on_failure's wrapper

vars == <<TIMESTAMP, now, files, hashseed, op, args, locals, ret, attempts, i>>

----------------------------------------------------------------------------
(* Tokens                                                                  *)

COLON == ":"
NL    == "\n"
SP    == " "
SLASH == "/"

Whitespace == {SP, NL}

\* literals of movie_mcp.py
HDR_DETAIL   == "dianying xiangqing(fullwidth colon)" \* "电影详情：" line 156
L_BIAOTI     == "biaoti"                \* "标题" line 157
L_PINGFEN    == "pingfen"               \* "评分" line 158, 223
L_REN_PINGJIA == "ren pingjia)"         \* "人评价)" line 158
L_PINGJIA_RENSHU == "pingjia renshu"    \* "评价人数" line 224
L_LEIXING    == "leixing"               \* "类型" line 142, 187
L_JIANJIE    == "jianjie"               \* "简介" line 147
L_HAIBAO     == "haibao lianjie"        \* "海报链接" line 153
D_WEIZHI_BIAOTI == "weizhi biaoti"      \* "未知标题" line 122
D_WU_PINGFEN == "wu pingfen"            \* "无评分" line 123
D_WU_JIANJIE == "wu jianjie"            \* "无简介" line 149
E_DETAIL     == "huoqu dianying xiangqing shi chucuo"  \* "获取电影详情时出错" line 166
E_ANALYZE    == "fenxi dianying xinxi shi chucuo"      \* "分析电影信息时出错" line 229
E_SAVE       == "baocun dianying xinxi shi chucuo"     \* "保存电影信息时出错" line 369
E_SEARCH     == "sousuo dianying shi chucuo"           \* "搜索电影时出错" line 104
E_COMMENTS   == "huoqu dianying pinglun shi chucuo"    \* "获取电影评论时出错" line 279
E_RECS       == "huoqu dianying tuijian shi chucuo"    \* "获取电影推荐时出错" line 328
M_SAVED      == "dianying xinxi yi baocun dao wenjian" \* "电影信息已保存到文件" line 366
M_MESSAGE    == "qing genju dianying xinxi shengcheng yingping" \* line 225

----------------------------------------------------------------------------
(* Python str operations on token sequences                                *)

Range(s) == {s[k] : k \in 1..Len(s)}

Contains(s, tok) == \E k \in 1..Len(s) : s[k] = tok

RECURSIVE LStrip(_)
LStrip(s) == IF s # <<>> /\ Head(s) \in Whitespace THEN LStrip(Tail(s)) ELSE s

RECURSIVE RStrip(_)
RStrip(s) ==
    IF s # <<>> /\ s[Len(s)] \in Whitespace
    THEN RStrip(SubSeq(s, 1, Len(s) - 1)) ELSE s

\* str.strip()
Strip(s) == RStrip(LStrip(s))

\* index of the first occurrence of the token sequence sep in s, 0 if none
RECURSIVE FindFrom(_, _, _)
FindFrom(s, sep, k) ==
    IF k + Len(sep) - 1 > Len(s) THEN 0
    ELSE IF \A j \in 1..Len(sep) : s[k + j - 1] = sep[j] THEN k
    ELSE FindFrom(s, sep, k + 1)

Find(s, sep) == FindFrom(s, sep, 1)

\* str.split(sep): every occurrence splits
RECURSIVE Split(_, _)
Split(s, sep) ==
    LET k == Find(s, sep) IN
    IF k = 0 THEN <<s>>
    ELSE <<SubSeq(s, 1, k - 1)>> \o Split(SubSeq(s, k + Len(sep), Len(s)), sep)

\* str.split(sep, 1) of a string that contains sep: <<before, after>>
Split1(s, sep) ==
    LET k == Find(s, sep) IN
    <<SubSeq(s, 1, k - 1), SubSeq(s, k + Len(sep), Len(s))>>

\* sep.join(parts)
RECURSIVE Join(_, _)
Join(parts, sep) ==
    IF parts = <<>> THEN <<>>
    ELSE IF Len(parts) = 1 THEN parts[1]
    ELSE parts[1] \o sep \o Join(Tail(parts), sep)

----------------------------------------------------------------------------
(* Python values and dicts.  A dict is the sequence of its items in        *)
(* insertion order; assigning to an existing key keeps its position.       *)

PyStr(s) == [type |-> "str", s |-> s]
PyNone   == [type |-> "NoneType", s |-> <<>>]

\* str(value), as an f-string formats it
Format(v) == IF v.type = "NoneType" THEN <<"None">> ELSE v.s

HasKey(d, k) == \E n \in 1..Len(d) : d[n].k = k

DictSet(d, k, v) ==
    IF HasKey(d, k)
    THEN [n \in 1..Len(d) |-> IF d[n].k = k THEN [k |-> k, v |-> v] ELSE d[n]]
    ELSE Append(d, [k |-> k, v |-> v])

\* d.get(k, default)
DictGet(d, k, default) ==
    IF HasKey(d, k)
    THEN (CHOOSE it \in Range(d) : it.k = k).v
    ELSE default

Keys(d) == {d[n].k : n \in 1..Len(d)}

----------------------------------------------------------------------------
(* The documents the site serves and the outcome of one HTTP GET           *)

\* a node a selector may or may not find; text is its raw text content
Absent     == [present |-> FALSE, text |-> <<>>]
Node(text) == [present |-> TRUE, text |-> text]

\* node.get_text(strip=True) of a node holding one text fragment
GetText(node) == Strip(node.text)

\* the <img> of #mainpic: absent, without a src attribute, or with one
NoImg    == [present |-> FALSE, hasSrc |-> FALSE, src |-> <<>>]
ImgNoSrc == [present |-> TRUE, hasSrc |-> FALSE, src |-> <<>>]
Img(src) == [present |-> TRUE, hasSrc |-> TRUE, src |-> src]

\* requests.get(...) followed by resp.raise_for_status()
FetchOk(doc)  == [ok |-> TRUE, doc |-> doc, err |-> <<>>]
FetchErr(err) == [ok |-> FALSE, doc |-> <<>>, err |-> err]

\* str(e) of the exceptions requests raises
ErrConnection == <<"Connection aborted.">>
ErrTimeout    == <<"Read timed out.">>
ErrStatus     == <<"404 Client Error", COLON, SP, "Not Found for url">>
FetchErrors   == {ErrConnection, ErrTimeout, ErrStatus}

\* the result of a block of code that may raise
Value(v)  == [raised |-> FALSE, v |-> v, err |-> <<>>]
Raise(err) == [raised |-> TRUE, v |-> <<>>, err |-> err]

----------------------------------------------------------------------------
(* Detail parser: movie_mcp.py 120-153 and simple_movie.py 53-96           *)

K_douban_id == <<"douban_id">>
K_title     == <<"title">>
K_rating    == <<"rating">>
K_votes     == <<"votes">>
K_leixing   == <<L_LEIXING>>
K_jianjie   == <<L_JIANJIE>>
K_haibao    == <<L_HAIBAO>>

\* lines 120-125 / 53-58: the three selector fields with their defaults
HeaderFields(douban_id, doc) ==
    << [k |-> K_douban_id, v |-> PyStr(douban_id)],
       [k |-> K_title,
        v |-> PyStr(IF doc.title.present THEN GetText(doc.title)
                    ELSE <<D_WEIZHI_BIAOTI>>)],
       [k |-> K_rating,
        v |-> PyStr(IF doc.rating.present THEN GetText(doc.rating)
                    ELSE <<D_WU_PINGFEN>>)],
       [k |-> K_votes,
        v |-> PyStr(IF doc.votes.present THEN GetText(doc.votes)
                    ELSE <<"0">>)] >>

\* lines 130-137 / 64-71: one line of the #info block
InfoLine(info, rawItem) ==
    LET item == Strip(rawItem) IN
    IF Contains(item, COLON)
    THEN LET kv    == Split1(item, <<COLON>>)
             key   == Strip(kv[1])
             value == Strip(kv[2])
         IN IF key # <<>> /\ value # <<>>
            THEN DictSet(info, key, PyStr(value))
            ELSE info
    ELSE info

RECURSIVE InfoLines(_, _)
InfoLines(info, items) ==
    IF items = <<>> THEN info
    ELSE InfoLines(InfoLine(info, Head(items)), Tail(items))

\* simple_movie.py 74-80: director, writer, cast from the linked names
RECURSIVE Roles(_, _)
Roles(info, roles) ==
    IF roles = <<>> THEN info
    ELSE LET r == Head(roles) IN
         Roles(IF r.span /\ r.attrs
               THEN DictSet(info, <<r.role>>,
                            PyStr(Join([n \in 1..Len(r.names) |-> Strip(r.names[n])],
                                       <<SP, SLASH, SP>>)))
               ELSE info,
               Tail(roles))

\* lines 128-137 / 61-80
InfoSection(info, doc, withRoles) ==
    IF doc.info.present
    THEN LET lines == InfoLines(info, Split(doc.info.text, <<NL>>))
         IN IF withRoles THEN Roles(lines, doc.roles) ELSE lines
    ELSE info

\* lines 140-142 / 83-85
Genres(info, doc) ==
    IF doc.genres # <<>>
    THEN DictSet(info, K_leixing,
                 PyStr(Join([n \in 1..Len(doc.genres) |-> Strip(doc.genres[n])],
                            <<SP, SLASH, SP>>)))
    ELSE info

\* lines 145-149 / 88-92
Summary(info, doc) ==
    DictSet(info, K_jianjie,
            PyStr(IF doc.summary.present THEN GetText(doc.summary)
                  ELSE <<D_WU_JIANJIE>>))

\* lines 152-153 / 95-96: poster["src"] raises KeyError on an <img> without src
Poster(info, doc) ==
    IF ~doc.poster.present THEN Value(DictSet(info, K_haibao, PyNone))
    ELSE IF doc.poster.hasSrc
         THEN Value(DictSet(info, K_haibao, PyStr(doc.poster.src)))
         ELSE Raise(<<"'src'">>)

\* the try body up to the record: Value(info) or the exception raised
ParseDetail(douban_id, resp, withRoles) ==
    IF ~resp.ok THEN Raise(resp.err)
    ELSE Poster(Summary(Genres(InfoSection(HeaderFields(douban_id, resp.doc),
                                           resp.doc, withRoles),
                               resp.doc),
                        resp.doc),
                resp.doc)

\* simple_movie.py get_movie_detail: the record, or {"error": str(e)}
K_error == <<"error">>

simple_get_movie_detail(douban_id, resp) ==
    LET r == ParseDetail(douban_id, resp, TRUE) IN
    IF r.raised THEN <<[k |-> K_error, v |-> PyStr(r.err)]>> ELSE r.v

\* movie_mcp.py 156-161: the text listing of the record
RECURSIVE FormatRest(_)
FormatRest(items) ==
    IF items = <<>> THEN <<>>
    ELSE LET it == Head(items) IN
         (IF it.k \notin {K_title, K_rating, K_votes, K_douban_id}
          THEN it.k \o <<COLON, SP>> \o Format(it.v) \o <<NL>>
          ELSE <<>>) \o FormatRest(Tail(items))

FormatDetail(info) ==
    <<HDR_DETAIL, NL, NL>>
    \o <<L_BIAOTI, COLON, SP>> \o Format(DictGet(info, K_title, PyNone)) \o <<NL>>
    \o <<L_PINGFEN, COLON, SP>> \o Format(DictGet(info, K_rating, PyNone))
       \o <<SP, "(">> \o Format(DictGet(info, K_votes, PyNone))
       \o <<L_REN_PINGJIA, NL>>
    \o FormatRest(info)

\* movie_mcp.py get_movie_detail: the listing, or the error text
get_movie_detail(douban_id, resp) ==
    LET r == ParseDetail(douban_id, resp, FALSE) IN
    IF r.raised THEN <<E_DETAIL, COLON, SP>> \o r.err ELSE FormatDetail(r.v)

----------------------------------------------------------------------------
(* Theme inference and analyze_movie: movie_mcp.py 169-229                 *)

\* lines 191-211, in the order of the source (pinyin for the Chinese keys)
GenreOrder ==
    << "juqing", "xiju", "dongzuo", "aiqing", "kehuan", "donghua", "xuanyi",
       "jingsong", "kongbu", "fanzui", "qihuan", "maoxian", "zainan", "yinyue",
       "lishi", "zhanzheng", "zhuanji", "yundong", "jilupian" >>

genre_themes ==
    [g \in Range(GenreOrder) |->
       CASE g = "juqing"    -> <<"gushixing", "renwu suzao", "qingjie fazhan">>
         [] g = "xiju"      -> <<"youmogan", "xiaodian", "huanle fenwei">>
         [] g = "dongzuo"   -> <<"dongzuo changmian", "shijue xiaoguo", "cijigan">>
         [] g = "aiqing"    -> <<"ganqingxian", "langman yuansu", "renwu guanxi">>
         [] g = "kehuan"    -> <<"keji yuansu", "weilai shijie", "xiangxiangli">>
         [] g = "donghua"   -> <<"donghua xiaoguo", "juese sheji", "shijue fengge">>
         [] g = "xuanyi"    -> <<"tuili yuansu", "juqing zhuanzhe", "xuannian shezhi">>
         [] g = "jingsong"  -> <<"jinzhang fenwei", "kongbu yuansu", "xinli miaoxie">>
         [] g = "kongbu"    -> <<"kongbu fenwei", "jingxia yuansu", "xinli kongju">>
         [] g = "fanzui"    -> <<"fanzui yuansu", "shehui wenti", "renxing tantao">>
         [] g = "qihuan"    -> <<"qihuan yuansu", "xiangxiangli", "shijieguan">>
         [] g = "maoxian"   -> <<"maoxian yuansu", "tansuo jingshen", "cijigan">>
         [] g = "zainan"    -> <<"zainan changjing", "renxing kaoyan", "shengcun zhuti">>
         [] g = "yinyue"    -> <<"yinyue yuansu", "yishu biaoxian", "qinggan biaoda">>
         [] g = "lishi"     -> <<"lishi beijing", "shidai tezheng", "wenhua neihan">>
         [] g = "zhanzheng" -> <<"zhanzheng changmian", "lishi beijing", "renxing tantao">>
         [] g = "zhuanji"   -> <<"renwu shengping", "lishi beijing", "renwu suzao">>
         [] g = "yundong"   -> <<"tiyu jingshen", "jingji yuansu", "tuandui hezuo">>
         [] g = "jilupian"  -> <<"zhenshi jilu", "shehui guancha", "zhishi puji">>]

\* `genre in genre_themes` for a Python string genre
InTable(genre) == Len(genre) = 1 /\ genre[1] \in DOMAIN genre_themes

\* lines 188, 213-215: themes.extend(...) for every listed genre of the table
RECURSIVE ExtendThemes(_, _)
ExtendThemes(themes, genres) ==
    IF genres = <<>> THEN themes
    ELSE ExtendThemes(IF InTable(Head(genres))
                      THEN themes \o genre_themes[Head(genres)[1]]
                      ELSE themes,
                      Tail(genres))

\* every theme of the table once
RECURSIVE FirstOccurrences(_, _)
FirstOccurrences(seen, s) ==
    IF s = <<>> THEN seen
    ELSE FirstOccurrences(IF Head(s) \in Range(seen) THEN seen ELSE Append(seen, Head(s)),
                          Tail(s))

AllThemes ==
    FirstOccurrences(<<>>,
        ExtendThemes(<<>>, [n \in 1..Len(GenreOrder) |-> <<GenreOrder[n]>>]))

\* a conversion that keeps the list as it is, repetitions included
ListOfSetKeepsList(themes, seed) == themes

\* line 222, list(set(themes)): the members of the set, each once, in an
\* order fixed by the interpreter's string hashing (the hash seed of the
\* process), not by the order of the list
ListOfSet(themes, seed) ==
    LET n      == Len(AllThemes)
        byHash == [k \in 1..n |-> AllThemes[((k - 1 + seed) % n) + 1]]
    IN SelectSeq(byHash, LAMBDA t : t \in Range(themes))

\* lines 180-184 and 342-346: the listing parsed back into a mapping
ListingLine(info, line) ==
    IF Contains(line, COLON)
    THEN LET kv == Split1(line, <<COLON>>)
         IN DictSet(info, Strip(kv[1]), PyStr(Strip(kv[2])))
    ELSE info

RECURSIVE ListingLines(_, _)
ListingLines(info, lines) ==
    IF lines = <<>> THEN info
    ELSE ListingLines(ListingLine(info, Head(lines)), Tail(lines))

ParseListing(detail_result) == ListingLines(<<>>, Split(detail_result, <<NL>>))

\* line 187
GenreList(info) ==
    Split(DictGet(info, K_leixing, PyStr(<<>>)).s, <<SP, SLASH, SP>>)

\* lines 176-226, the try body
AnalyzeBody(douban_id, resp, seed) ==
    LET detail_result == get_movie_detail(douban_id, resp)
        info   == ParseListing(detail_result)
        genres == GenreList(info)
        themes == ExtendThemes(<<>>, genres)
    IN Value([ douban_id      |-> douban_id,
               jiben_xinxi    |-> info,
               leixing        |-> genres,
               zhuti          |-> ListOfSet(themes, seed),
               pingfen        |-> DictGet(info, <<L_PINGFEN>>, PyStr(<<D_WU_PINGFEN>>)).s,
               pingjia_renshu |-> DictGet(info, <<L_PINGJIA_RENSHU>>, PyStr(<<"0">>)).s,
               message        |-> <<M_MESSAGE>> ])

\* lines 175-229: the payload, or {"error": ...} when the body raised
analyze_movie(douban_id, resp, seed) ==
    LET r == AnalyzeBody(douban_id, resp, seed) IN
    IF r.raised THEN [error |-> <<E_ANALYZE, COLON, SP>> \o r.err] ELSE r.v

----------------------------------------------------------------------------
(* Listing parsers: movie_mcp.py 231-328                                   *)

L_PINGLUN_HDR == "dianying pinglun(fullwidth colon)"  \* "电影评论：" line 269
L_TUIJIAN_HDR == "tuijian dianying(fullwidth colon)"  \* "推荐电影：" line 318
L_SHIJIAN     == "shijian"                            \* "时间" line 261
L_NEIRONG     == "neirong"                            \* "内容" line 260
M_NO_COMMENTS == "weizhaodao renhe pinglun"           \* "未找到任何评论" line 276
M_NO_RECS     == "weizhaodao renhe tuijian dianying"  \* "未找到任何推荐电影" line 325

\* items[:limit], Python slicing: a negative limit counts from the end
\* a slice that keeps every item whatever the limit
SliceAll(items, limit) == items

\* items[:limit], lines 249 and 299 (and data[:limit], line 80)
Slice(items, limit) ==
    LET n == Len(items)
        m == IF limit >= 0
             THEN (IF limit < n THEN limit ELSE n)
             ELSE (IF n + limit > 0 THEN n + limit ELSE 0)
    IN SubSeq(items, 1, m)

\* lines 251-262: the record of one .comment-item, or the exception raised.
\* rating["class"][0][-2] needs a first class name of two characters or more.
CommentOf(item) ==
    IF ~item.author.present THEN Raise(<<"'NoneType' object has no attribute 'get_text'">>)
    ELSE IF item.rating.present /\ Len(item.rating.text) < 2
         THEN Raise(<<"string index out of range">>)
    ELSE IF ~item.content.present \/ ~item.time.present
         THEN Raise(<<"'NoneType' object has no attribute 'get_text'">>)
    ELSE Value([ zuozhe  |-> GetText(item.author),
                 pingfen |-> IF item.rating.present
                             THEN <<item.rating.text[Len(item.rating.text) - 1]>>
                             ELSE <<D_WU_PINGFEN>>,
                 neirong |-> GetText(item.content),
                 shijian |-> GetText(item.time) ])

\* lines 301-311: the stub of one recommendation <dl>, or the exception.
\* link.split("/")[-2] needs a link with at least one "/".
RecommendationOf(item) ==
    IF ~item.a.present THEN Raise(<<"'NoneType' object has no attribute 'get_text'">>)
    ELSE IF ~item.a.hasHref THEN Raise(<<"'href'">>)
    ELSE LET parts == Split(item.a.href, <<SLASH>>) IN
         IF Len(parts) < 2 THEN Raise(<<"list index out of range">>)
         ELSE Value([ title     |-> Strip(item.a.text),
                      douban_id |-> parts[Len(parts) - 1],
                      rating    |-> IF item.rating.present THEN GetText(item.rating)
                                    ELSE <<D_WU_PINGFEN>> ])

\* lines 249-265: the loop; an item that raises is skipped
RECURSIVE CommentLoop(_, _)
CommentLoop(comments, items) ==
    IF items = <<>> THEN comments
    ELSE LET r == CommentOf(Head(items)) IN
         CommentLoop(IF r.raised THEN comments ELSE Append(comments, r.v), Tail(items))

\* lines 299-314
RECURSIVE RecommendationLoop(_, _)
RecommendationLoop(recs, items) ==
    IF items = <<>> THEN recs
    ELSE LET r == RecommendationOf(Head(items)) IN
         RecommendationLoop(IF r.raised THEN recs ELSE Append(recs, r.v), Tail(items))

\* lines 248-249, 245
ParseComments(doc, limit) == CommentLoop(<<>>, Slice(doc.comment_items, limit))

\* lines 298-299, 295
ParseRecommendations(doc, limit) == RecommendationLoop(<<>>, Slice(doc.rec_items, limit))

\* lines 268-276
RECURSIVE FormatComments(_, _)
FormatComments(comments, n) ==
    IF n > Len(comments) THEN <<>>
    ELSE LET c == comments[n] IN
         <<ToString(n), ".", SP>> \o c.zuozhe \o <<SP, "(", L_PINGFEN, COLON, SP>>
            \o c.pingfen \o <<")", NL>>
         \o <<SP, SP, SP, L_SHIJIAN, COLON, SP>> \o c.shijian \o <<NL>>
         \o <<SP, SP, SP, L_NEIRONG, COLON, SP>> \o c.neirong \o <<NL, NL>>
         \o FormatComments(comments, n + 1)

\* lines 317-325
RECURSIVE FormatRecommendations(_, _)
FormatRecommendations(recs, n) ==
    IF n > Len(recs) THEN <<>>
    ELSE LET m == recs[n] IN
         <<ToString(n), ".", SP>> \o m.title \o <<NL>>
         \o <<SP, SP, SP, L_PINGFEN, COLON, SP>> \o m.rating \o <<NL>>
         \o <<SP, SP, SP, "ID", COLON, SP>> \o m.douban_id \o <<NL, NL>>
         \o FormatRecommendations(recs, n + 1)

\* lines 239-279: [comments, result]; comments is the list built by the loop
get_movie_comments(douban_id, resp, limit) ==
    IF ~resp.ok
    THEN [comments |-> <<>>, result |-> <<E_COMMENTS, COLON, SP>> \o resp.err]
    ELSE LET comments == ParseComments(resp.doc, limit) IN
         [comments |-> comments,
          result   |-> IF comments # <<>>
                       THEN <<L_PINGLUN_HDR, NL, NL>> \o FormatComments(comments, 1)
                       ELSE <<M_NO_COMMENTS>>]

\* lines 289-328
get_movie_recommendations(douban_id, resp, limit) ==
    IF ~resp.ok
    THEN [recommendations |-> <<>>, result |-> <<E_RECS, COLON, SP>> \o resp.err]
    ELSE LET recs == ParseRecommendations(resp.doc, limit) IN
         [recommendations |-> recs,
          result |-> IF recs # <<>>
                     THEN <<L_TUIJIAN_HDR, NL, NL>> \o FormatRecommendations(recs, 1)
                     ELSE <<M_NO_RECS>>]

----------------------------------------------------------------------------
(* search_movies: movie_mcp.py 60-104                                      *)

L_SOUSUO_HDR == "sousuo jieguo(fullwidth colon)"   \* "搜索结果：" line 92
L_FUBIAOTI   == "fubiaoti"                         \* "副标题" line 97
M_NOT_FOUND  == "weizhaodao xiangguan dianying"    \* "未找到与...相关的电影" line 101

\* lines 82-88: item["title"] and item["id"] raise KeyError when absent
SearchItem(item) ==
    IF ~item.title.present THEN Raise(<<"'title'">>)
    ELSE IF ~item.id.present THEN Raise(<<"'id'">>)
    ELSE Value([ title     |-> item.title.text,
                 year      |-> IF item.year.present THEN item.year.text ELSE <<>>,
                 douban_id |-> item.id.text,
                 subtitle  |-> IF item.sub_title.present THEN item.sub_title.text
                               ELSE <<>> ])

\* lines 81-88: no per-item handler, the first exception leaves the loop
RECURSIVE SearchLoop(_, _)
SearchLoop(results, items) ==
    IF items = <<>> THEN Value(results)
    ELSE LET r == SearchItem(Head(items)) IN
         IF r.raised THEN r ELSE SearchLoop(Append(results, r.v), Tail(items))

\* lines 93-98
RECURSIVE FormatSearch(_, _)
FormatSearch(results, n) ==
    IF n > Len(results) THEN <<>>
    ELSE LET m == results[n] IN
         <<ToString(n), ".", SP>> \o m.title \o <<SP, "(">> \o m.year \o <<")", NL>>
         \o <<SP, SP, SP, "ID", COLON, SP>> \o m.douban_id \o <<NL>>
         \o (IF m.subtitle # <<>>
             THEN <<SP, SP, SP, L_FUBIAOTI, COLON, SP>> \o m.subtitle \o <<NL>>
             ELSE <<>>)
         \o <<NL>> \o FormatSearch(results, n + 1)

\* lines 68-104; resp.json() raises on a body that is not JSON
search_movies(keyword, resp, limit) ==
    LET body == IF ~resp.ok THEN Raise(resp.err)
                ELSE IF ~resp.doc.json THEN Raise(<<"Expecting value">>)
                ELSE SearchLoop(<<>>, Slice(resp.doc.data, limit))
    IN IF body.raised THEN <<E_SEARCH, COLON, SP>> \o body.err
       ELSE IF body.v # <<>>
            THEN <<L_SOUSUO_HDR, NL, NL>> \o FormatSearch(body.v, 1)
            ELSE <<M_NOT_FOUND>> \o keyword

----------------------------------------------------------------------------
(* save_movie_info: movie_mcp.py 46-50, 331-369                            *)

\* line 17, strftime("%Y%m%d_%H%M%S"): the clock reading as date_time
StampOf(t) == <<"20250101", "_", ToString(t)>>

\* line 359, strftime("%Y-%m-%d %H:%M:%S")
SaveTimeOf(t) == <<"2025-01-01", SP, ToString(t)>>

\* a file name that leaves the identifier out
FilenameWithoutId(douban_id, stamp) ==
    <<"movie", "_">> \o stamp \o <<".json">>

\* line 363: f"movie_{douban_id}_{TIMESTAMP}.json"
Filename(douban_id, stamp) ==
    <<"movie", "_">> \o douban_id \o <<"_">> \o stamp \o <<".json">>

\* what open(filepath, 'w') leaves before json.dump has written anything
Truncated == [truncated |-> TRUE]

\* lines 46-50.  disk is how the file system answers: "ok"; "open" when
\* open() fails (permission), leaving the directory as it was; "dump" when
\* the write fails after open() has truncated the file (disk full).
\* Opening with mode 'w' replaces whatever the file held.
save_to_json(fs, data, filename, disk) ==
    IF disk = "open" THEN [files |-> fs, raised |-> TRUE, err |-> <<"Permission denied">>]
    ELSE IF disk = "dump"
         THEN [files  |-> (filename :> Truncated) @@ fs,
               raised |-> TRUE, err |-> <<"No space left on device">>]
    ELSE [files |-> (filename :> data) @@ fs, raised |-> FALSE, err |-> <<>>]

DEFAULT_LIMIT == 5   \* the default of limit, lines 232 and 282

\* lines 337-369: [files, result]
save_movie_info(fs, douban_id, r_detail, r_comments, r_recs, stamp, t, disk) ==
    LET detail_result == get_movie_detail(douban_id, r_detail)
        info == ParseListing(detail_result)
        comments_result ==
            get_movie_comments(douban_id, r_comments, DEFAULT_LIMIT).result
        recommendations_result ==
            get_movie_recommendations(douban_id, r_recs, DEFAULT_LIMIT).result
        movie_data == [ jiben_xinxi    |-> info,
                        pinglun        |-> comments_result,
                        tuijian        |-> recommendations_result,
                        baocun_shijian |-> SaveTimeOf(t) ]
        filename == Filename(douban_id, stamp)
        w == save_to_json(fs, movie_data, filename, disk)
    IN [ files    |-> w.files,
         filename |-> filename,
         result   |-> IF w.raised THEN <<E_SAVE, COLON, SP>> \o w.err
                      ELSE <<M_SAVED, COLON, SP>> \o filename ]

----------------------------------------------------------------------------
(* Inputs                                                                  *)

MaxNow == 1     \* the clock runs from 0 to MaxNow

Seeds == {0, 7}  \* two hash seeds, two orders of a set's members

MAX_RETRIES == 3   \* line 26
RETRY_DELAY == 2   \* line 27

Ids == { <<"1">>, <<"1", "_", "2">> }

Keywords == { <<"heat">> }

DiskAnswers == {"ok", "open", "dump"}

RecOk ==
    [ a |-> [present |-> TRUE, hasHref |-> TRUE, text |-> <<"Ronin">>,
             href |-> <<"https:", SLASH, SLASH, "movie.douban.com", SLASH,
                        "subject", SLASH, "77", SLASH>>],
      rating |-> Node(<<"7.9">>) ]

RecNoAnchor ==
    [ a |-> [present |-> FALSE, hasHref |-> FALSE, text |-> <<>>, href |-> <<>>],
      rating |-> Absent ]

Director ==
    [role |-> "daoyan", span |-> TRUE, attrs |-> TRUE,
     names |-> << <<"Mann">>, <<SP, "Scott">> >>]

\* a detail page with every node, and one with none of the optional nodes
DocFull ==
    [ title   |-> Node(<<SP, "Heat", SP>>),
      rating  |-> Node(<<"8.4">>),
      votes   |-> Node(<<"1000">>),
      info    |-> Node(<<NL, "pianchang", COLON, SP, "170", NL>>),
      roles   |-> <<Director>>,
      genres  |-> << <<"fanzui">>, <<"dongzuo">> >>,
      summary |-> Node(<<"A heist.">>),
      poster  |-> Img(<<"p.jpg">>),
      rec_items |-> <<RecOk, RecNoAnchor>> ]

DocBare ==
    [ title |-> Absent, rating |-> Absent, votes |-> Absent, info |-> Absent,
      roles |-> <<>>, genres |-> <<>>, summary |-> Absent, poster |-> NoImg,
      rec_items |-> <<>> ]

\* a comment page: a well-formed item (first class of .rating "allstar50")
\* and one without the author link
DocComments ==
    [ comment_items |->
        << [author |-> Node(<<"ann">>), rating |-> Node(<<"allstar", "5", "0">>),
            content |-> Node(<<"Great.">>), time |-> Node(<<"2025-01-01">>)],
           [author |-> Absent, rating |-> Absent,
            content |-> Node(<<"?">>), time |-> Node(<<"2025-01-02">>)] >> ]

\* the suggestion API: a JSON list, or a body that is not JSON
SearchHit ==
    [ title |-> Node(<<"Heat">>), id |-> Node(<<"1">>), year |-> Node(<<"1995">>),
      sub_title |-> Absent ]
SearchNoId ==
    [ title |-> Node(<<"Heat 2">>), id |-> Absent, year |-> Absent,
      sub_title |-> Node(<<"x">>) ]

DetailResponses  == { FetchErr(ErrStatus), FetchOk(DocFull) }
CommentResponses == { FetchErr(ErrConnection), FetchOk(DocComments) }
RecResponses     == { FetchErr(ErrTimeout), FetchOk(DocFull) }
SearchResponses  ==
    { FetchErr(ErrTimeout), FetchOk([json |-> TRUE, data |-> <<SearchHit>>]) }

\* every detail page built from a present or a missing node per selector;
\* the second #info block has a line whose key is "rating"
DetailDocs ==
    [ title   : {Absent, Node(<<SP, "Heat", SP>>)},
      rating  : {Absent, Node(<<"8.4">>)},
      votes   : {Absent, Node(<<"1000">>)},
      info    : {Absent,
                 Node(<<NL, "pianchang", COLON, SP, "170", NL>>),
                 Node(<<"rating", COLON, SP, "5.0", NL, "IMDb", COLON, NL>>)},
      roles   : {<<>>, <<Director>>},
      genres  : {<<>>, << <<"fanzui">>, <<"dongzuo">> >>},
      summary : {Absent, Node(<<"A heist.">>)},
      poster  : {NoImg, ImgNoSrc, Img(<<"p.jpg">>)},
      rec_items : {<<RecOk>>} ]

AllDetailResponses == {FetchErr(e) : e \in FetchErrors} \union {FetchOk(d) : d \in DetailDocs}

AllSearchResponses ==
    { FetchErr(ErrTimeout),
      FetchOk([json |-> FALSE, data |-> <<>>]),
      FetchOk([json |-> TRUE, data |-> <<>>]),
      FetchOk([json |-> TRUE, data |-> <<SearchHit, SearchNoId>>]),
      FetchOk([json |-> TRUE, data |-> <<SearchHit, SearchHit>>]) }

\* what the site answers to the 1st, 2nd, ... GET of one URL:
\* any first answer, and later answers that fail or succeed
Plans(first, later) ==
    { <<a>> \o rest : a \in first, rest \in [1..(MAX_RETRIES - 1) -> later] }

\* a site whose answer is the same on every attempt
StablePlans(responses) == { [n \in 1..MAX_RETRIES |-> a] : a \in responses }

----------------------------------------------------------------------------
(* The server process: one action per tool.  Each invocation runs to       *)
(* completion before the next begins.                                      *)

\* a returned value, tagged by its Python type: a str, the dict `info` of
\* simple_movie.py (items in insertion order), the dict literal that
\* analyze_movie returns (a record), or nothing returned yet
Str(s)     == [str |-> s]
Dict(d)    == [dict |-> d]
Payload(p) == [payload |-> p]
NoValue    == [none |-> <<>>]

\* lines 70-75, 115-116, 241-242, 291-292: one requests.get and
\* raise_for_status; no handler calls it through retry_on_failure
Fetch(plan) == [resp |-> plan[1], attempts |-> 1]

Init ==
    /\ now = 0
    /\ TIMESTAMP = StampOf(now)
    /\ files = <<>>
    /\ hashseed \in Seeds
    /\ op = "idle"
    /\ args = <<>>
    /\ locals = <<>>
    /\ ret = NoValue
    /\ attempts = 0
    /\ i = 0

Tick ==
    /\ now < MaxNow
    /\ now' = now + 1
    /\ UNCHANGED <<TIMESTAMP, files, hashseed, op, args, locals, ret, attempts, i>>

SearchMovies(limits, plans) ==
    \E keyword \in Keywords, limit \in limits, plan \in plans :
       LET f == Fetch(plan) IN
       /\ op' = "search_movies"
       /\ args' = [keyword |-> keyword, limit |-> limit, plan |-> plan]
       /\ locals' = <<>>
       /\ ret' = Str(search_movies(keyword, f.resp, limit))
       /\ attempts' = f.attempts
       /\ UNCHANGED <<TIMESTAMP, now, files, hashseed, i>>

GetMovieDetail(plans) ==
    \E douban_id \in Ids, plan \in plans :
       LET f == Fetch(plan) IN
       /\ op' = "get_movie_detail"
       /\ args' = [douban_id |-> douban_id, plan |-> plan]
       /\ locals' = [info |-> ParseDetail(douban_id, f.resp, FALSE)]
       /\ ret' = Str(get_movie_detail(douban_id, f.resp))
       /\ attempts' = f.attempts
       /\ UNCHANGED <<TIMESTAMP, now, files, hashseed, i>>

AnalyzeMovie(plans) ==
    \E douban_id \in Ids, plan \in plans :
       LET f == Fetch(plan) IN
       /\ op' = "analyze_movie"
       /\ args' = [douban_id |-> douban_id, plan |-> plan]
       /\ locals' = <<>>
       /\ ret' = Payload(analyze_movie(douban_id, f.resp, hashseed))
       /\ attempts' = f.attempts
       /\ UNCHANGED <<TIMESTAMP, now, files, hashseed, i>>

GetMovieComments(limits, plans) ==
    \E douban_id \in Ids, limit \in limits, plan \in plans :
       LET f == Fetch(plan)
           r == get_movie_comments(douban_id, f.resp, limit) IN
       /\ op' = "get_movie_comments"
       /\ args' = [douban_id |-> douban_id, limit |-> limit, plan |-> plan]
       /\ locals' = [comments |-> r.comments]
       /\ ret' = Str(r.result)
       /\ attempts' = f.attempts
       /\ UNCHANGED <<TIMESTAMP, now, files, hashseed, i>>

GetMovieRecommendations(limits, plans) ==
    \E douban_id \in Ids, limit \in limits, plan \in plans :
       LET f == Fetch(plan)
           r == get_movie_recommendations(douban_id, f.resp, limit) IN
       /\ op' = "get_movie_recommendations"
       /\ args' = [douban_id |-> douban_id, limit |-> limit, plan |-> plan]
       /\ locals' = [recommendations |-> r.recommendations]
       /\ ret' = Str(r.result)
       /\ attempts' = f.attempts
       /\ UNCHANGED <<TIMESTAMP, now, files, hashseed, i>>

\* the three nested tool calls fetch once each
SaveMovieInfo(details, comments, recs) ==
    \E douban_id \in Ids, r_detail \in details, r_comments \in comments,
       r_recs \in recs, disk \in DiskAnswers :
       LET r == save_movie_info(files, douban_id, r_detail, r_comments, r_recs,
                                TIMESTAMP, now, disk) IN
       /\ op' = "save_movie_info"
       /\ args' = [douban_id |-> douban_id, detail |-> r_detail,
                   comments |-> r_comments, recs |-> r_recs, disk |-> disk]
       /\ locals' = [filename |-> r.filename]
       /\ ret' = Str(r.result)
       /\ files' = r.files
       /\ attempts' = 3
       /\ UNCHANGED <<TIMESTAMP, now, hashseed, i>>

\* simple_movie.py get_movie_detail, called from the menu (lines 202-214)
SimpleGetMovieDetail(plans) ==
    \E douban_id \in Ids, plan \in plans :
       LET f == Fetch(plan) IN
       /\ op' = "simple.get_movie_detail"
       /\ args' = [douban_id |-> douban_id, plan |-> plan]
       /\ locals' = <<>>
       /\ ret' = Dict(simple_get_movie_detail(douban_id, f.resp))
       /\ attempts' = f.attempts
       /\ UNCHANGED <<TIMESTAMP, now, files, hashseed, i>>

\* the server over its lifetime, asked by a client that sees a stable site
Next ==
    \/ Tick
    \/ SearchMovies({DEFAULT_LIMIT}, StablePlans(SearchResponses))
    \/ GetMovieDetail(StablePlans(DetailResponses))
    \/ AnalyzeMovie(StablePlans(DetailResponses))
    \/ GetMovieComments({DEFAULT_LIMIT}, StablePlans(CommentResponses))
    \/ GetMovieRecommendations({DEFAULT_LIMIT}, StablePlans(RecResponses))
    \/ SaveMovieInfo(DetailResponses, {FetchOk(DocComments)}, {FetchOk(DocFull)})

Spec == Init /\ [][Next]_vars

----------------------------------------------------------------------------
(* One invocation of one operation in a fresh process, the site answering  *)
(* each attempt as it likes                                                *)

LaterResponses == { FetchErr(ErrTimeout), FetchOk(DocFull) }

CallLimits == {0, 1, DEFAULT_LIMIT}

CallSearchMovies ==
    /\ op = "idle"
    /\ SearchMovies(CallLimits,
                    Plans(AllSearchResponses, SearchResponses))

CallGetMovieDetail ==
    /\ op = "idle"
    /\ GetMovieDetail(Plans(AllDetailResponses, LaterResponses))

CallAnalyzeMovie ==
    /\ op = "idle"
    /\ AnalyzeMovie(Plans(AllDetailResponses, LaterResponses))

CallSimpleGetMovieDetail ==
    /\ op = "idle"
    /\ SimpleGetMovieDetail(Plans(AllDetailResponses, LaterResponses))

CallGetMovieComments ==
    /\ op = "idle"
    /\ GetMovieComments(CallLimits, Plans(CommentResponses, CommentResponses))

CallGetMovieRecommendations ==
    /\ op = "idle"
    /\ GetMovieRecommendations(CallLimits,
                               Plans(RecResponses \union {FetchOk(DocBare)},
                                     RecResponses))

CallSaveMovieInfo ==
    /\ op = "idle"
    /\ SaveMovieInfo(DetailResponses \union {FetchOk(DocBare)},
                     CommentResponses, RecResponses)

NextCall ==
    \/ CallSearchMovies
    \/ CallGetMovieDetail
    \/ CallAnalyzeMovie
    \/ CallSimpleGetMovieDetail
    \/ CallGetMovieComments
    \/ CallGetMovieRecommendations
    \/ CallSaveMovieInfo

SpecCall == Init /\ [][NextCall]_vars

----------------------------------------------------------------------------
(* The listing tools over listings of every shape                          *)

MaxItems == 7    \* items of a listing
MaxLimit == 7    \* limit runs from -1 to MaxLimit

\* the n-th .comment-item: well formed (with or without a .rating), or
\* malformed in one of the four ways the extraction can fail
CommentItem(n, wellFormed) ==
    [ author  |-> IF ~wellFormed /\ n % 4 = 0 THEN Absent
                  ELSE Node(<<SP, "user", ToString(n)>>),
      rating  |-> IF ~wellFormed /\ n % 4 = 1 THEN Node(<<"r">>)
                  ELSE IF n % 2 = 1 THEN Node(<<"allstar", ToString((n % 5) + 1), "0">>)
                  ELSE Absent,
      content |-> IF ~wellFormed /\ n % 4 = 2 THEN Absent
                  ELSE Node(<<"text", ToString(n)>>),
      time    |-> IF ~wellFormed /\ n % 4 = 3 THEN Absent
                  ELSE Node(<<"2025-01-01">>) ]

\* the n-th <dl> of .recommendations-bd: well formed, or without <a>,
\* without href, or with a link that has no "/"
RecItem(n, wellFormed) ==
    [ a |-> IF ~wellFormed /\ n % 3 = 0
            THEN [present |-> FALSE, hasHref |-> FALSE, text |-> <<>>, href |-> <<>>]
            ELSE IF ~wellFormed /\ n % 3 = 1
            THEN [present |-> TRUE, hasHref |-> FALSE,
                  text |-> <<"movie", ToString(n)>>, href |-> <<>>]
            ELSE IF ~wellFormed
            THEN [present |-> TRUE, hasHref |-> TRUE,
                  text |-> <<"movie", ToString(n)>>, href |-> <<"#">>]
            ELSE [present |-> TRUE, hasHref |-> TRUE,
                  text |-> <<"movie", ToString(n), SP>>,
                  href |-> <<"https:", SLASH, SLASH, "movie.douban.com", SLASH,
                             "subject", SLASH, ToString(100 + n), SLASH>>],
      rating |-> IF n % 2 = 1 THEN Node(<<"7.", ToString(n)>>) ELSE Absent ]

Shapes == UNION { [1..n -> BOOLEAN] : n \in 0..MaxItems }

CommentPages ==
    { FetchOk([comment_items |-> [n \in DOMAIN sh |-> CommentItem(n, sh[n])]]) :
        sh \in Shapes }

RecPages ==
    { FetchOk([DocFull EXCEPT !.rec_items = [n \in DOMAIN sh |-> RecItem(n, sh[n])]]) :
        sh \in Shapes }

ListLimits == (-1)..MaxLimit

ListGetMovieComments ==
    /\ op = "idle"
    /\ GetMovieComments(ListLimits, StablePlans(CommentPages))

ListGetMovieRecommendations ==
    /\ op = "idle"
    /\ GetMovieRecommendations(ListLimits, StablePlans(RecPages))

NextList ==
    \/ ListGetMovieComments
    \/ ListGetMovieRecommendations

SpecList == Init /\ [][NextList]_vars

----------------------------------------------------------------------------
(* analyze_movie over detail pages with every genre list                   *)

MaxGenres == 3   \* v:genre spans of a detail page

\* two genres that share a theme, one more, and one the table does not have
GenreNames == { <<"dongzuo">>, <<"maoxian">>, <<SP, "xuanyi">>, <<"xibu">> }

GenreLists == UNION { [1..n -> GenreNames] : n \in 0..MaxGenres }

GenrePages == { FetchOk([DocFull EXCEPT !.genres = gl]) : gl \in GenreLists }

ThemesAnalyzeMovie ==
    /\ op = "idle"
    /\ AnalyzeMovie(StablePlans(GenrePages))

NextThemes == ThemesAnalyzeMovie

SpecThemes == Init /\ [][NextThemes]_vars

----------------------------------------------------------------------------
(* retry_on_failure: movie_mcp.py 29-44, the wrapper around a function     *)
(* whose n-th call fails or succeeds as plan[n] says                       *)

MaxRetriesArg == 4   \* max_retries runs from 0 to MaxRetriesArg

\* the wrapped function, called for the n-th time
func(plan, n) ==
    IF plan[n] THEN Value(<<"result", ToString(n)>>)
    ELSE Raise(<<"error", ToString(n)>>)

Return(v)   == [return |-> v]
Raised(err) == [raise |-> err]
None        == <<"None">>

InitRetry ==
    /\ now = 0
    /\ TIMESTAMP = StampOf(now)
    /\ files = <<>>
    /\ hashseed = 0
    /\ op = "wrapper"
    /\ args \in [max_retries : 0..MaxRetriesArg, plan : [1..MaxRetriesArg -> BOOLEAN]]
    /\ locals = <<>>
    /\ ret = NoValue
    /\ attempts = 0
    /\ i = 0

\* a test of the last attempt that is off by one
IsLastAttemptOffByOne(n, max_retries) == n = max_retries

\* line 38
IsLastAttempt(n, max_retries) == n = max_retries - 1

\* lines 34-39: one pass of the loop body
WrapperAttempt ==
    /\ op = "wrapper"
    /\ i < args.max_retries
    /\ attempts' = attempts + 1
    /\ LET r == func(args.plan, attempts + 1) IN
       IF ~r.raised
       THEN op' = "returned" /\ ret' = Return(r.v)
       ELSE IF IsLastAttempt(i, args.max_retries)
            THEN op' = "raised" /\ ret' = Raised(r.err)
            ELSE op' = "sleep" /\ ret' = ret
    /\ UNCHANGED <<TIMESTAMP, now, files, hashseed, args, locals, i>>

\* lines 40-41 and the loop's next index
WrapperSleep ==
    /\ op = "sleep"
    /\ now' = now + RETRY_DELAY
    /\ i' = i + 1
    /\ op' = "wrapper"
    /\ UNCHANGED <<TIMESTAMP, files, hashseed, args, locals, ret, attempts>>

\* line 42: the loop ended without a return or a raise
WrapperFallThrough ==
    /\ op = "wrapper"
    /\ i >= args.max_retries
    /\ op' = "returned"
    /\ ret' = Return(None)
    /\ UNCHANGED <<TIMESTAMP, now, files, hashseed, args, locals, attempts, i>>

NextRetry ==
    \/ WrapperAttempt
    \/ WrapperSleep
    \/ WrapperFallThrough

SpecRetry == InitRetry /\ [][NextRetry]_vars

----------------------------------------------------------------------------
(* Properties of one invocation (SpecCall)                                 *)

ErrorLabels == {E_SEARCH, E_DETAIL, E_ANALYZE, E_COMMENTS, E_RECS, E_SAVE}

FetchOps ==
    {"search_movies", "get_movie_detail", "get_movie_comments",
     "get_movie_recommendations"}

DetailOps == {"get_movie_detail", "analyze_movie", "simple.get_movie_detail"}

\* the operation returned a text that explains a failure
IsErrorText ==
    /\ DOMAIN ret = {"str"}
    /\ ret.str # <<>>
    /\ ret.str[1] \in ErrorLabels

\* the operation returned a mapping with an `error` key
IsErrorMapping ==
    \/ DOMAIN ret = {"payload"} /\ "error" \in DOMAIN ret.payload
    \/ DOMAIN ret = {"dict"} /\ HasKey(ret.dict, K_error)

\* a fetch of the invocation failed
FetchFailed ==
    IF op = "save_movie_info"
    THEN ~args.detail.ok \/ ~args.comments.ok \/ ~args.recs.ok
    ELSE ~args.plan[1].ok

\* the detail page was fetched and its <img> has no src, or the search
\* answer was fetched and is not JSON
ParseFailed ==
    \/ op \in DetailOps /\ args.plan[1].ok
       /\ args.plan[1].doc.poster.present /\ ~args.plan[1].doc.poster.hasSrc
    \/ op = "search_movies" /\ args.plan[1].ok /\ ~args.plan[1].doc.json

WriteFailed == op = "save_movie_info" /\ args.disk # "ok"

\* C1: every public operation returns a value, and whenever a fetch, a
\* parsing step or the file write fails, the value is an explanatory text
\* or a mapping with an `error` key.
C1_FailuresAreReported ==
    op # "idle" =>
       /\ DOMAIN ret \in {{"str"}, {"dict"}, {"payload"}}
       /\ (FetchFailed \/ ParseFailed \/ WriteFailed) => (IsErrorText \/ IsErrorMapping)

\* the text is "<label>: <the error of a fetch>"
IsFetchFailureReport ==
    /\ IsErrorText
    /\ Len(ret.str) > 3
    /\ SubSeq(ret.str, 4, Len(ret.str)) \in FetchErrors

\* C3: a fetch of a public operation is retried up to 3 attempts: the
\* operation reports a fetch failure only after all 3 attempts have failed.
C3_FetchRetriedUpToLimit ==
    op \in FetchOps =>
       (IsFetchFailureReport => \A n \in 1..MAX_RETRIES : ~args.plan[n].ok)

AnalysisFields == {"zhuti", "pingfen", "pingjia_renshu", "message"}

\* C4: when the fetch of the detail page fails, simple_movie.get_movie_detail
\* returns a mapping that holds the `error` key alone, and analyze_movie a
\* mapping with the `error` key and no analysis field.
C4_FetchFailureIsErrorPayload ==
    /\ (op = "simple.get_movie_detail" /\ ~args.plan[1].ok)
          => (DOMAIN ret = {"dict"} /\ Keys(ret.dict) = {K_error})
    /\ (op = "analyze_movie" /\ ~args.plan[1].ok)
          => /\ DOMAIN ret = {"payload"}
             /\ "error" \in DOMAIN ret.payload
             /\ DOMAIN ret.payload \cap AnalysisFields = {}

\* the record get_movie_detail built: its local `info` (movie_mcp.py) or
\* its return value (simple_movie.py)
DetailRecord == IF op = "get_movie_detail" THEN locals.info.v ELSE ret.dict

DetailSucceeded ==
    IF op = "get_movie_detail" THEN ~locals.info.raised
    ELSE ~HasKey(ret.dict, K_error)

FieldIs(record, key, node, default) ==
    /\ HasKey(record, key)
    /\ DictGet(record, key, PyNone) =
          (IF node.present THEN PyStr(Strip(node.text)) ELSE default)

\* C6: for a fetched detail page, each of title, rating, vote count,
\* synopsis and poster whose node is missing has its documented default,
\* each whose node is present has the extracted value, and the operation
\* does not fail.  (Pages whose <img> has no src are left aside.)
C6_MissingFieldsDefault ==
    (/\ op \in {"get_movie_detail", "simple.get_movie_detail"}
     /\ args.plan[1].ok
     /\ ~ParseFailed)
    => LET doc == args.plan[1].doc IN
       /\ DetailSucceeded
       /\ FieldIs(DetailRecord, K_title, doc.title, PyStr(<<D_WEIZHI_BIAOTI>>))
       /\ FieldIs(DetailRecord, K_rating, doc.rating, PyStr(<<D_WU_PINGFEN>>))
       /\ FieldIs(DetailRecord, K_votes, doc.votes, PyStr(<<"0">>))
       /\ FieldIs(DetailRecord, K_jianjie, doc.summary, PyStr(<<D_WU_JIANJIE>>))
       /\ HasKey(DetailRecord, K_haibao)
       /\ DictGet(DetailRecord, K_haibao, PyStr(<<>>)) =
             (IF doc.poster.present THEN PyStr(doc.poster.src) ELSE PyNone)

\* C10: for a fetched detail page, "pingfen" and "pingjia renshu" of the
\* payload of analyze_movie are the rating and the vote count that
\* get_movie_detail extracted from the page.
C10_AnalyzeRatingAndVotes ==
    (op = "analyze_movie" /\ args.plan[1].ok /\ ~ParseFailed)
    => LET info == ParseDetail(args.douban_id, args.plan[1], FALSE).v IN
       /\ ret.payload.pingfen = DictGet(info, K_rating, PyNone).s
       /\ ret.payload.pingjia_renshu = DictGet(info, K_votes, PyNone).s

----------------------------------------------------------------------------
(* Properties of retry_on_failure (SpecRetry)                              *)

\* the number of leading calls of the wrapped function that fail, among
\* the first max_retries
LeadingFailures ==
    CHOOSE k \in 0..args.max_retries :
       /\ \A n \in 1..k : ~args.plan[n]
       /\ k = args.max_retries \/ args.plan[k + 1]

\* C2: with max_retries = N >= 1, a function that fails on its first k < N
\* calls and then succeeds is attempted exactly k+1 times and its result
\* returned; a function that fails on each of its N calls is attempted
\* exactly N times and the error of the last attempt is raised.  The
\* wrapper never returns anything else, and never attempts more than N times.
C2_RetryAttemptsAndOutcome ==
    (op \in {"wrapper", "sleep", "returned", "raised"} /\ args.max_retries >= 1)
    => LET N == args.max_retries
           k == LeadingFailures
       IN /\ attempts <= N
          /\ op \in {"returned", "raised"} =>
                IF k < N
                THEN /\ op = "returned"
                     /\ attempts = k + 1
                     /\ ret = Return(<<"result", ToString(k + 1)>>)
                ELSE /\ op = "raised"
                     /\ attempts = N
                     /\ ret = Raised(<<"error", ToString(N)>>)

\* fails twice, then succeeds, with max_retries = 3: returned at attempt 3
C2_FailsTwiceThenSucceeds ==
    /\ op = "returned"
    /\ args.max_retries = 3
    /\ ~args.plan[1] /\ ~args.plan[2] /\ args.plan[3]
    /\ attempts = 3
    /\ ret = Return(<<"result", "3">>)

----------------------------------------------------------------------------
(* Properties of the listing tools (SpecList)                              *)

ListOps == {"get_movie_comments", "get_movie_recommendations"}

\* the items of the fetched listing, and the records the tool built
ListItems ==
    IF op = "get_movie_comments" THEN args.plan[1].doc.comment_items
    ELSE args.plan[1].doc.rec_items

ListRecords ==
    IF op = "get_movie_comments" THEN locals.comments ELSE locals.recommendations

\* every field of the item can be extracted: the author link, the content
\* and the time are there and a .rating has a class name of two characters
\* or more; the <a> is there and has an href with a "/" in it
ItemWellFormed(item) ==
    IF op = "get_movie_comments"
    THEN /\ item.author.present /\ item.content.present /\ item.time.present
         /\ item.rating.present => Len(item.rating.text) >= 2
    ELSE item.a.present /\ item.a.hasHref /\ SLASH \in Range(item.a.href)

\* what tells one item from another: the author, or the title
ItemKey(item) ==
    IF op = "get_movie_comments" THEN Strip(item.author.text) ELSE Strip(item.a.text)

RecordKey(rec) == IF op = "get_movie_comments" THEN rec.zuozhe ELSE rec.title

\* the positions of the first `limit` items of the listing
Considered ==
    1..(IF args.limit < Len(ListItems) THEN args.limit ELSE Len(ListItems))

\* the position in the listing of the item the j-th record was built from
PositionOf(j) ==
    CHOOSE n \in 1..Len(ListItems) : ItemKey(ListItems[n]) = RecordKey(ListRecords[j])

\* C5: for a fetched listing and a limit >= 0, the records are at most
\* `limit`, each is built from a well-formed item among the first `limit`
\* items, every such item has its record, a malformed item has none, and
\* the records are in the order of the listing.
C5_RecordsWithinLimitInOrder ==
    (op \in ListOps /\ args.plan[1].ok /\ args.limit >= 0)
    => /\ Len(ListRecords) <= args.limit
       /\ \A n \in 1..Len(ListItems) :
             (n \in Considered /\ ItemWellFormed(ListItems[n]))
             <=> (\E j \in 1..Len(ListRecords) :
                     RecordKey(ListRecords[j]) = ItemKey(ListItems[n]))
       /\ \A j \in 1..Len(ListRecords) :
             \E n \in Considered : ItemKey(ListItems[n]) = RecordKey(ListRecords[j])
       /\ \A j, k \in 1..Len(ListRecords) : j < k => PositionOf(j) < PositionOf(k)

\* 7 well-formed comment items and limit = 5: the first 5, in order
C5_SevenItemsLimitFive ==
    /\ op = "get_movie_comments"
    /\ args.plan[1].ok
    /\ args.limit = 5
    /\ Len(ListItems) = 7
    /\ \A n \in 1..7 : ItemWellFormed(ListItems[n])
    /\ Len(locals.comments) = 5
    /\ \A j \in 1..5 : locals.comments[j].zuozhe = <<"user", ToString(j)>>

----------------------------------------------------------------------------
(* Properties of the theme inference (SpecThemes)                          *)

\* the themes of the table for a set of genres
ThemesOf(genres) ==
    UNION { Range(genre_themes[g[1]]) : g \in {x \in genres : InTable(x)} }

\* C7: the themes of the payload of analyze_movie are, without repetition,
\* the union of the table entries of the genres of its genre list: the
\* order of the list and the repetitions in it do not matter, and a genre
\* the table does not have adds nothing.  The genre list holds the genres
\* of the page (and an empty name when the page lists none).
C7_ThemesAreUnionOfTableEntries ==
    (op = "analyze_movie" /\ args.plan[1].ok /\ ~ParseFailed)
    => /\ DOMAIN ret = {"payload"}
       /\ "error" \notin DOMAIN ret.payload
       /\ Range(ret.payload.leixing) \ {<<>>} =
             {Strip(g) : g \in Range(args.plan[1].doc.genres)} \ {<<>>}
       /\ Range(ret.payload.zhuti) = ThemesOf(Range(ret.payload.leixing))
       /\ Len(ret.payload.zhuti) = Cardinality(Range(ret.payload.zhuti))

\* a list with a repeated genre, a genre with a theme in common with it,
\* and five themes for the six the two table entries list
C7_RepeatedAndSharedThemes ==
    /\ op = "analyze_movie"
    /\ args.plan[1].ok
    /\ args.plan[1].doc.genres = << <<"maoxian">>, <<"dongzuo">>, <<"maoxian">> >>
    /\ Len(ret.payload.zhuti) = 5
    /\ "cijigan" \in Range(ret.payload.zhuti)

----------------------------------------------------------------------------
(* Properties of the files of one run of the server (Spec)                 *)

\* C8: a file that save_movie_info has written is never written again: it
\* stays in the directory with the content it had.
C8_FilesWrittenOnce ==
    [][\A f \in DOMAIN files : f \in DOMAIN files' /\ files'[f] = files[f]]_vars

\* movie_{identifier}_{run timestamp}.json
ArtifactName(douban_id) ==
    <<"movie", "_">> \o douban_id \o <<"_">> \o TIMESTAMP \o <<".json">>

\* C9: the run timestamp is the one taken at the start of the process and
\* no step changes it; only save_movie_info touches the directory, and the
\* one file it targets is movie_{identifier}_{run timestamp}.json; a save
\* that follows another targets the same name exactly when the identifiers
\* are equal.
C9_RunTimestampNamesFiles ==
    [][/\ TIMESTAMP = StampOf(0)
       /\ TIMESTAMP' = TIMESTAMP
       /\ files' # files => op' = "save_movie_info"
       /\ op' = "save_movie_info" =>
             /\ locals'.filename = ArtifactName(args'.douban_id)
             /\ DOMAIN files' \subseteq DOMAIN files \union {locals'.filename}
             /\ \A f \in DOMAIN files' :
                   \E id \in Ids : f = ArtifactName(id)
       /\ (op = "save_movie_info" /\ op' = "save_movie_info") =>
             (locals'.filename = locals.filename
                <=> args'.douban_id = args.douban_id)]_vars

\* two saves of different identifiers, the second after the clock moved
C9_TwoSavesLaterInTheRun ==
    /\ op = "save_movie_info"
    /\ now > 0
    /\ Cardinality(DOMAIN files) = 2
    /\ locals.filename \in DOMAIN files
    /\ files[locals.filename].baocun_shijian = SaveTimeOf(now)

----------------------------------------------------------------------------
(* Properties of one save_movie_info call in a fresh process (SpecCall)    *)

\* the text is the success message of save_movie_info, line 366
IsSavedMessage ==
    DOMAIN ret = {"str"} /\ ret.str # <<>> /\ ret.str[1] = M_SAVED

\* C11: save_movie_info writes a file and returns the success message only
\* when the fetch of the detail page succeeded; when that fetch fails the
\* directory is as it was (empty, in a fresh process) and the returned
\* text reports the failure.
C11_SaveOnlyAfterDetailFetched ==
    (op = "save_movie_info" /\ ~args.detail.ok)
    => /\ files = <<>>
       /\ ~IsSavedMessage
       /\ IsErrorText

====
